---- MODULE Spec2Model ----
(***************************************************************************)
(* Model of dashboard/scripts/rebuild_index.py: scan_data_dir walks a tree *)
(* of date directories and builds one record per primary benchmark file,   *)
(* write_index serialises the records to the index document, main runs one *)
(* after the other.  Strings are TLA+ strings handled character by         *)
(* character; a Python dict is the sequence of its <<key, value>> items in *)
(* insertion order.                                                        *)
(***************************************************************************)
EXTENDS Integers, Sequences, FiniteSets, TLC

VARIABLES
    fs,       \* the filesystem under the data directory
    output,   \* args.output, as path components below the data directory
    pc,       \* position in main: "idle", "scanned", "exited"
    runs,     \* the list main (or a caller of write_index) holds
    outcome,  \* how the last call ended
    before,   \* what the output path held when write_index was called
    cycles,   \* successful scan-then-write cycles so far
    first     \* run list and file contents of the first successful cycle

vars == <<fs, output, pc, runs, outcome, before, cycles, first>>

---------------------------------------------------------------------------
(* Bounds of the model *)

\* Entries that exist in the date directories, all directories together.
MaxEntries == 2
\* Successful cycles of main (or calls of write_index) in one behaviour.
MaxCycles == 2
\* Bytes that reach the disk before a failing write, at most.
MaxCut == 2
\* Records in a run list handed to write_index directly.
MaxRuns == 2

\* Names a child of the data directory can have: two date directories,
\* "10" before "2" as strings and after it as numbers, and the index file.
DateNames == {"10", "2"}
IndexName == "index.json"
\* Names an entry of a date directory can have.
FileNames == {"a-bench.json", "b-bench.json", "-bench.json",
              "a-jit-bench.json", "a-regression.json",
              "a-jit-regression.json", "a-cross-client.json", "readme.txt"}
\* What a file created by the benchmark pipeline holds (never read).
Blob == "{}"

---------------------------------------------------------------------------
(* Python str operations *)

\* Printable ASCII in code point order: 32..95, then 97..126.
ASCII_LOW == " !\"#$%&'()*+,-./0123456789:;<=>?@ABCDEFGHIJKLMNOPQRSTUVWXYZ[\\]^_"
ASCII_HIGH == "abcdefghijklmnopqrstuvwxyz{|}~"

IndexIn(c, s) == CHOOSE i \in 1..Len(s) : SubSeq(s, i, i) = c

\* ord(c)
Ord(c) ==
    IF \E i \in 1..Len(ASCII_LOW) : SubSeq(ASCII_LOW, i, i) = c
    THEN 31 + IndexIn(c, ASCII_LOW)
    ELSE 96 + IndexIn(c, ASCII_HIGH)

\* a < b for str: by code point, a proper prefix first.
RECURSIVE StrLess(_, _)
StrLess(a, b) ==
    IF b = "" THEN FALSE
    ELSE IF a = "" THEN TRUE
    ELSE IF Head(a) = Head(b) THEN StrLess(Tail(a), Tail(b))
    ELSE Ord(Head(a)) < Ord(Head(b))

\* s.endswith(suffix)
EndsWith(s, suffix) ==
    /\ Len(s) >= Len(suffix)
    /\ SubSeq(s, Len(s) - Len(suffix) + 1, Len(s)) = suffix

\* s.removesuffix(suffix)
RemoveSuffix(s, suffix) ==
    IF suffix # "" /\ EndsWith(s, suffix)
    THEN SubSeq(s, 1, Len(s) - Len(suffix))
    ELSE s

\* fnmatch of a name against a pattern of literal characters and "*".
RECURSIVE FnMatch(_, _)
FnMatch(name, pat) ==
    IF pat = "" THEN name = ""
    ELSE IF Head(pat) = "*"
         THEN \/ FnMatch(name, Tail(pat))
              \/ name # "" /\ FnMatch(Tail(name), pat)
    ELSE /\ name # ""
         /\ Head(name) = Head(pat)
         /\ FnMatch(Tail(name), Tail(pat))

---------------------------------------------------------------------------
(* The filesystem.  fs.kind says what the data directory path is: "absent", *)
(* "dir" or "file".  fs.root lists its children in the order the directory *)
(* lists them, [name, isDir, text]; fs.ents[d] lists the entries of date   *)
(* directory d, [name, text], again in listing order.                      *)

EmptyFs(kind) == [kind |-> kind, root |-> <<>>, ents |-> [d \in DateNames |-> <<>>]]

HasName(listing, name) == \E i \in 1..Len(listing) : listing[i].name = name

NumEntries(f) ==
    LET RECURSIVE Sum(_)
        Sum(S) == IF S = {} THEN 0
                  ELSE LET d == CHOOSE x \in S : TRUE
                       IN Len(f.ents[d]) + Sum(S \ {d})
    IN Sum(DateNames)

---------------------------------------------------------------------------
(* scan_data_dir *)

BENCH_GLOB == "*-bench.json"
BENCH_SUFFIX == "-bench.json"
JIT_BENCH_SUFFIX == "-jit-bench.json"

BaseAlwaysExists(f) == TRUE

\* base.exists()
BaseExists(f) == f.kind # "absent"

\* sorted(paths): the paths of one directory, so ordered by their name.
RECURSIVE InsertByName(_, _)
InsertByName(e, s) ==
    IF s = <<>> THEN <<e>>
    ELSE IF StrLess(e.name, Head(s).name) THEN <<e>> \o s
    ELSE <<Head(s)>> \o InsertByName(e, Tail(s))

RECURSIVE SortByName(_)
SortByName(s) ==
    IF s = <<>> THEN <<>> ELSE InsertByName(Head(s), SortByName(Tail(s)))

Unsorted(s) == s

Sorted(s) == SortByName(s)

\* date_dir.is_dir()
IsDir(e) == e.isDir

\* date_dir.glob("*-bench.json"), in listing order
Glob(listing) == SelectSeq(listing, LAMBDA e : FnMatch(e.name, BENCH_GLOB))

NeverJitBench(name) == FALSE

\* name.endswith("-jit-bench.json")
IsJitBench(name) == EndsWith(name, JIT_BENCH_SUFFIX)

CommitOffByOne(name) ==
    IF Len(name) > Len(BENCH_SUFFIX)
    THEN SubSeq(name, 1, Len(name) - Len(BENCH_SUFFIX) - 1)
    ELSE ""

\* commit = name.removesuffix("-bench.json")
Commit(name) == RemoveSuffix(name, BENCH_SUFFIX)

RelPathNoDate(date, name) == name

\* f"{date_name}/{name}"
RelPath(date, name) == date \o "/" \o name

ExistsInAnyDate(f, date, name) == \E d \in DateNames : HasName(f.ents[d], name)

\* (date_dir / name).exists()
PathExists(f, date, name) == HasName(f.ents[date], name)

\* One "if <companion>.exists(): entry[key] = ..." block.
Companion(f, date, commit, key, suffix) ==
    IF PathExists(f, date, commit \o suffix)
    THEN << <<key, RelPath(date, commit \o suffix)>> >>
    ELSE <<>>

\* The record built for primary file name in date directory date.
Entry(f, date, name) ==
    LET commit == Commit(name)
    IN  << <<"date", date>>, <<"commit", commit>>, <<"bench", RelPath(date, name)>> >>
        \o Companion(f, date, commit, "jit_bench", "-jit-bench.json")
        \o Companion(f, date, commit, "regression", "-regression.json")
        \o Companion(f, date, commit, "jit_regression", "-jit-regression.json")
        \o Companion(f, date, commit, "cross_client", "-cross-client.json")

\* The inner loop over the sorted bench files of one date directory.
RECURSIVE ScanFiles(_, _, _)
ScanFiles(f, date, files) ==
    IF files = <<>> THEN <<>>
    ELSE (IF IsJitBench(Head(files).name)
          THEN <<>>
          ELSE <<Entry(f, date, Head(files).name)>>)
         \o ScanFiles(f, date, Tail(files))

\* The outer loop over the sorted children of the data directory.
RECURSIVE ScanDirs(_, _)
ScanDirs(f, children) ==
    IF children = <<>> THEN <<>>
    ELSE (IF ~IsDir(Head(children))
          THEN <<>>
          ELSE ScanFiles(f, Head(children).name,
                         Sorted(Glob(f.ents[Head(children).name]))))
         \o ScanDirs(f, Tail(children))

\* scan_data_dir(data_dir): the list returned, or raised when base.iterdir()
\* raises (the path is no directory).
scan_data_dir(f) ==
    IF ~BaseExists(f) THEN [raised |-> FALSE, entries |-> <<>>]
    ELSE IF f.kind # "dir" THEN [raised |-> TRUE, entries |-> <<>>]
    ELSE [raised |-> FALSE, entries |-> ScanDirs(f, Sorted(f.root))]

---------------------------------------------------------------------------
(* json.dump(index, f, indent=2, sort_keys=False) *)

\* The escape of one character of a string (py_encode_basestring_ascii).
EscapeChar(c) ==
    IF c = "\"" THEN "\\\""
    ELSE IF c = "\\" THEN "\\\\"
    ELSE IF c = "\n" THEN "\\n"
    ELSE c

RECURSIVE Escape(_)
Escape(s) == IF s = "" THEN "" ELSE EscapeChar(Head(s)) \o Escape(Tail(s))

EncodeStr(s) == "\"" \o Escape(s) \o "\""

RECURSIVE Spaces(_)
Spaces(n) == IF n = 0 THEN "" ELSE " " \o Spaces(n - 1)

\* "\n" and the indent of a nesting level, two spaces a level.
NewlineIndent(level) == "\n" \o Spaces(2 * level)

RECURSIVE InsertByKey(_, _)
InsertByKey(item, s) ==
    IF s = <<>> THEN <<item>>
    ELSE IF StrLess(item[1], Head(s)[1]) THEN <<item>> \o s
    ELSE <<Head(s)>> \o InsertByKey(item, Tail(s))

RECURSIVE SortedItems(_)
SortedItems(dct) ==
    IF dct = <<>> THEN <<>> ELSE InsertByKey(Head(dct), SortedItems(Tail(dct)))

\* dct.items() with sort_keys=False: insertion order.
Items(dct) == dct

\* The items of a dict, one a line: "key": "value", then the separator.
RECURSIVE EncodeItems(_, _)
EncodeItems(items, level) ==
    IF items = <<>> THEN ""
    ELSE EncodeStr(Head(items)[1]) \o ": " \o EncodeStr(Head(items)[2])
         \o (IF Len(items) = 1 THEN ""
             ELSE "," \o NewlineIndent(level) \o EncodeItems(Tail(items), level))

\* _iterencode_dict of one record (str keys, str values), opened at level.
EncodeDict(dct, level) ==
    IF dct = <<>> THEN "{}"
    ELSE "{" \o NewlineIndent(level + 1) \o EncodeItems(Items(dct), level + 1)
         \o NewlineIndent(level) \o "}"

RECURSIVE EncodeElems(_, _)
EncodeElems(lst, level) ==
    IF lst = <<>> THEN ""
    ELSE EncodeDict(Head(lst), level)
         \o (IF Len(lst) = 1 THEN ""
             ELSE "," \o NewlineIndent(level) \o EncodeElems(Tail(lst), level))

\* _iterencode_list of the run list, opened at level.
EncodeList(lst, level) ==
    IF lst = <<>> THEN "[]"
    ELSE "[" \o NewlineIndent(level + 1) \o EncodeElems(lst, level + 1)
         \o NewlineIndent(level) \o "]"

\* The text json.dump writes for index = {"runs": runs}.
JsonDump(rs) ==
    "{" \o NewlineIndent(1) \o EncodeStr("runs") \o ": " \o EncodeList(rs, 1)
    \o NewlineIndent(0) \o "}"

---------------------------------------------------------------------------
(* Files: open(path, "w"), f.write, and the directories above the path *)

DATA_DIR == "data"

\* output_path as the string main passes.
PathStr(out) ==
    IF Len(out) = 1 THEN DATA_DIR \o "/" \o out[1]
    ELSE DATA_DIR \o "/" \o out[1] \o "/" \o out[2]

IndexOf(listing, name) == CHOOSE i \in 1..Len(listing) : listing[i].name = name

\* The listing the output file is an entry of.
ParentListing(f, out) == IF Len(out) = 1 THEN f.root ELSE f.ents[out[1]]

LeafName(out) == out[Len(out)]

\* What the output path holds: [exists, isDir, text].
ReadFile(f, out) ==
    LET listing == ParentListing(f, out)
    IN  IF f.kind = "dir" /\ HasName(listing, LeafName(out))
        THEN LET e == listing[IndexOf(listing, LeafName(out))]
             IN  [exists |-> TRUE,
                  isDir |-> IF Len(out) = 1 THEN e.isDir ELSE FALSE,
                  text |-> e.text]
        ELSE [exists |-> FALSE, isDir |-> FALSE, text |-> ""]

\* os.makedirs(dirname, exist_ok=True) raises: a component is a plain file.
MakedirsRaises(f, out) ==
    \/ f.kind = "file"
    \/ /\ Len(out) = 2
       /\ f.kind = "dir"
       /\ HasName(f.root, out[1])
       /\ ~f.root[IndexOf(f.root, out[1])].isDir

\* os.makedirs(dirname, exist_ok=True): the filesystem with the missing
\* directories above the output path created.
Makedirs(f, out) ==
    LET root1 == IF Len(out) = 2 /\ ~HasName(f.root, out[1])
                 THEN Append(f.root, [name |-> out[1], isDir |-> TRUE, text |-> ""])
                 ELSE f.root
    IN  [f EXCEPT !.kind = "dir", !.root = root1]

OpenAppend(old) == [text |-> old, pos |-> Len(old)]

OpenUpdate(old) == [text |-> old, pos |-> 0]

\* open(path, "w") on a file holding old: truncated, written from the start.
OpenW(old) == [text |-> "", pos |-> 0]

\* f.write(data): data over the bytes at the position, which moves on.
FileWrite(h, data) ==
    [text |-> SubSeq(h.text, 1, h.pos) \o data
              \o SubSeq(h.text, h.pos + Len(data) + 1, Len(h.text)),
     pos |-> h.pos + Len(data)]

\* The filesystem with the output file holding text (created when absent).
PutFile(f, out, text) ==
    LET listing == ParentListing(f, out)
        leaf == LeafName(out)
        new == IF Len(out) = 1
               THEN [name |-> leaf, isDir |-> FALSE, text |-> text]
               ELSE [name |-> leaf, text |-> text]
        listing1 == IF HasName(listing, leaf)
                    THEN [listing EXCEPT ![IndexOf(listing, leaf)].text = text]
                    ELSE Append(listing, new)
    IN  IF Len(out) = 1 THEN [f EXCEPT !.root = listing1]
        ELSE [f EXCEPT !.ents[out[1]] = listing1]

---------------------------------------------------------------------------
(* write_index *)

Faults == {"none", "makedirs", "open", "write"}

\* write_index(runs, output_path) under an I/O fault of the environment:
\* none, or the call that raises OSError, a failing write after cut bytes
\* reached the file.  error is the failing call, "" when none failed.
write_index(f, rs, out, fault, cut) ==
    LET payload == JsonDump(rs) \o "\n"
        f1 == Makedirs(f, out)
        h0 == OpenW(ReadFile(f1, out).text)
        part == FileWrite(h0, SubSeq(payload, 1, cut))
        h1 == FileWrite(h0, JsonDump(rs))
        h2 == FileWrite(h1, "\n")
    IN  IF fault = "makedirs" \/ MakedirsRaises(f, out)
        THEN [fs |-> f, error |-> "makedirs"]
        ELSE IF fault = "open" \/ ReadFile(f1, out).isDir
        THEN [fs |-> f1, error |-> "open"]
        ELSE IF fault = "write"
        THEN [fs |-> PutFile(f1, out, part.text), error |-> "write"]
        ELSE [fs |-> PutFile(f1, out, h2.text), error |-> ""]

---------------------------------------------------------------------------
(* json.load, as the tests read the written file back.  The result is the  *)
(* document as a sequence of events, "{" "}" "[" "]", "k" \o key and       *)
(* "s" \o string, in document order; values other than strings, objects    *)
(* and arrays do not occur in an index and are rejected.                   *)

CharAt(t, i) == IF 1 <= i /\ i <= Len(t) THEN SubSeq(t, i, i) ELSE ""

IsWhitespace(c) == c \in {" ", "\n", "\t", "\r"}

RECURSIVE SkipWs(_, _)
SkipWs(t, i) == IF IsWhitespace(CharAt(t, i)) THEN SkipWs(t, i + 1) ELSE i

StrFail == [ok |-> FALSE, s |-> "", pos |-> 0]

\* py_scanstring from position i, after the opening quote.
RECURSIVE ScanString(_, _, _)
ScanString(t, i, acc) ==
    LET c == CharAt(t, i)
        e == CharAt(t, i + 1)
    IN  IF c = "" \/ c = "\n" THEN StrFail
        ELSE IF c = "\"" THEN [ok |-> TRUE, s |-> acc, pos |-> i + 1]
        ELSE IF c # "\\" THEN ScanString(t, i + 1, acc \o c)
        ELSE IF e \in {"\"", "\\", "/"} THEN ScanString(t, i + 2, acc \o e)
        ELSE IF e = "n" THEN ScanString(t, i + 2, acc \o "\n")
        ELSE StrFail

ParseFail == [ok |-> FALSE, ev |-> <<>>, pos |-> 0]

RECURSIVE ParseValue(_, _)
RECURSIVE ParseMembers(_, _, _)
RECURSIVE ParseElements(_, _, _)

\* The members of an object from position i, at a key.
ParseMembers(t, i, acc) ==
    LET key == ScanString(t, i + 1, "")
        colon == SkipWs(t, key.pos)
        val == ParseValue(t, SkipWs(t, colon + 1))
        next == SkipWs(t, val.pos)
        ev == acc \o <<"k" \o key.s>> \o val.ev
    IN  IF CharAt(t, i) # "\"" \/ ~key.ok THEN ParseFail
        ELSE IF CharAt(t, colon) # ":" THEN ParseFail
        ELSE IF ~val.ok THEN ParseFail
        ELSE IF CharAt(t, next) = "," THEN ParseMembers(t, SkipWs(t, next + 1), ev)
        ELSE IF CharAt(t, next) = "}"
        THEN [ok |-> TRUE, ev |-> ev \o <<"}">>, pos |-> next + 1]
        ELSE ParseFail

\* The elements of an array from position i, at a value.
ParseElements(t, i, acc) ==
    LET val == ParseValue(t, i)
        next == SkipWs(t, val.pos)
        ev == acc \o val.ev
    IN  IF ~val.ok THEN ParseFail
        ELSE IF CharAt(t, next) = "," THEN ParseElements(t, SkipWs(t, next + 1), ev)
        ELSE IF CharAt(t, next) = "]"
        THEN [ok |-> TRUE, ev |-> ev \o <<"]">>, pos |-> next + 1]
        ELSE ParseFail

\* One value at position i.
ParseValue(t, i) ==
    LET c == CharAt(t, i)
        str == ScanString(t, i + 1, "")
        inner == SkipWs(t, i + 1)
    IN  IF c = "\""
        THEN IF str.ok THEN [ok |-> TRUE, ev |-> <<"s" \o str.s>>, pos |-> str.pos]
             ELSE ParseFail
        ELSE IF c = "{"
        THEN IF CharAt(t, inner) = "}"
             THEN [ok |-> TRUE, ev |-> <<"{", "}">>, pos |-> inner + 1]
             ELSE ParseMembers(t, inner, <<"{">>)
        ELSE IF c = "["
        THEN IF CharAt(t, inner) = "]"
             THEN [ok |-> TRUE, ev |-> <<"[", "]">>, pos |-> inner + 1]
             ELSE ParseElements(t, inner, <<"[">>)
        ELSE ParseFail

\* json.load(f): the whole text is one value, whitespace around it.
JsonLoad(t) ==
    LET val == ParseValue(t, SkipWs(t, 1))
    IN  IF val.ok /\ SkipWs(t, val.pos) = Len(t) + 1
        THEN [ok |-> TRUE, ev |-> val.ev]
        ELSE [ok |-> FALSE, ev |-> <<>>]

---------------------------------------------------------------------------
(* main, and the benchmark pipeline that fills the data directory before   *)
(* the indexer runs                                                        *)

OutPaths == {<<IndexName>>, <<"2", "b-bench.json">>}

NoOutcome == [kind |-> "none", path |-> "", cause |-> "", reported |-> FALSE]
NoFile == [exists |-> FALSE, isDir |-> FALSE, text |-> ""]
NoFirst == [runs |-> <<>>, text |-> ""]

\* main with the default arguments: --data-dir data --output data/index.json.
Init ==
    /\ fs = EmptyFs("absent")
    /\ output = <<IndexName>>
    /\ pc = "idle"
    /\ runs = <<>>
    /\ outcome = NoOutcome
    /\ before = NoFile
    /\ cycles = 0
    /\ first = NoFirst

\* The indexer has not run yet: the pipeline may still change the tree.
Filling == pc = "idle" /\ cycles = 0 /\ outcome.kind = "none"

\* The data directory path comes to exist, as a directory or a plain file.
ExtMakeData(kind) ==
    /\ Filling
    /\ fs.kind = "absent"
    /\ fs' = [fs EXCEPT !.kind = kind]
    /\ UNCHANGED <<output, pc, runs, outcome, before, cycles, first>>

\* A date directory is created.
ExtMkdir(d) ==
    /\ Filling
    /\ fs.kind = "dir"
    /\ ~HasName(fs.root, d)
    /\ fs' = [fs EXCEPT !.root = Append(@, [name |-> d, isDir |-> TRUE, text |-> ""])]
    /\ UNCHANGED <<output, pc, runs, outcome, before, cycles, first>>

\* A plain file is created directly under the data directory.
ExtTouchRoot ==
    /\ Filling
    /\ fs.kind = "dir"
    /\ ~HasName(fs.root, IndexName)
    /\ fs' = [fs EXCEPT !.root = Append(@, [name |-> IndexName, isDir |-> FALSE, text |-> Blob])]
    /\ UNCHANGED <<output, pc, runs, outcome, before, cycles, first>>

\* A file is created in a date directory.
ExtCreate(d, n) ==
    /\ Filling
    /\ fs.kind = "dir"
    /\ HasName(fs.root, d)
    /\ ~HasName(fs.ents[d], n)
    /\ NumEntries(fs) < MaxEntries
    /\ fs' = [fs EXCEPT !.ents[d] = Append(@, [name |-> n, text |-> Blob])]
    /\ UNCHANGED <<output, pc, runs, outcome, before, cycles, first>>

\* main, line 97: runs = scan_data_dir(args.data_dir); an exception of the
\* scan ends the process.
MainScan ==
    /\ pc = "idle"
    /\ cycles < MaxCycles
    /\ LET r == scan_data_dir(fs)
       IN  IF r.raised
           THEN /\ pc' = "exited"
                /\ outcome' = [kind |-> "raise", path |-> DATA_DIR,
                               cause |-> "iterdir", reported |-> FALSE]
                /\ runs' = runs
           ELSE /\ pc' = "scanned"
                /\ outcome' = outcome
                /\ runs' = r.entries
    /\ UNCHANGED <<fs, output, before, cycles, first>>

\* main, lines 98-99: write_index(runs, args.output), then the report; the
\* SystemExit of write_index ends the process before the report.
MainWrite(fault, cut) ==
    /\ pc = "scanned"
    /\ LET w == write_index(fs, runs, output, fault, cut)
       IN  /\ fs' = w.fs
           /\ before' = ReadFile(fs, output)
           /\ IF w.error = ""
              THEN /\ pc' = "idle"
                   /\ outcome' = [kind |-> "ok", path |-> PathStr(output),
                                  cause |-> "", reported |-> TRUE]
                   /\ cycles' = cycles + 1
                   /\ first' = IF cycles = 0
                               THEN [runs |-> runs, text |-> ReadFile(w.fs, output).text]
                               ELSE first
              ELSE /\ pc' = "exited"
                   /\ outcome' = [kind |-> "exit", path |-> PathStr(output),
                                  cause |-> w.error, reported |-> FALSE]
                   /\ UNCHANGED <<cycles, first>>
    /\ UNCHANGED <<output, runs>>

Next ==
    \/ \E kind \in {"dir", "file"} : ExtMakeData(kind)
    \/ \E d \in DateNames : ExtMkdir(d)
    \/ ExtTouchRoot
    \/ \E d \in DateNames, n \in FileNames : ExtCreate(d, n)
    \/ MainScan
    \/ MainWrite("none", 0)

\* The indexer run again and again over a tree the pipeline has filled, in
\* an environment whose I/O does not fail.
Spec == Init /\ [][Next]_vars

---------------------------------------------------------------------------
(* write_index called directly, as the tests call it: any run list, any    *)
(* previous state of the output path, any I/O fault                        *)

RecA == << <<"date", "10">>, <<"commit", "a">>, <<"bench", "10/a-bench.json">> >>
RecB == << <<"date", "2">>, <<"commit", "q\"\\">> >>
RecC == << <<"date", "2">>, <<"commit", "b">>, <<"bench", "2/b-bench.json">>,
           <<"regression", "2/b-regression.json">> >>
RecordPool == {RecA, RecB, RecC, <<>>}

RunLists == UNION {[1..n -> RecordPool] : n \in 0..MaxRuns}

\* A document longer than any the run lists give.
LongText == JsonDump(<<RecC, RecC, RecC, RecC, RecC>>) \o "\n"
PriorTexts == {Blob, LongText}

\* The output path is a directory.
DirAtOutput ==
    [EmptyFs("dir") EXCEPT !.root = <<[name |-> IndexName, isDir |-> TRUE, text |-> ""]>>]

InitWrite ==
    /\ output \in OutPaths
    /\ \/ fs \in {EmptyFs("absent"), EmptyFs("dir"), EmptyFs("file"), DirAtOutput}
       \/ \E p \in PriorTexts :
              fs = PutFile(Makedirs(EmptyFs("dir"), output), output, p)
    /\ pc = "scanned"
    /\ runs \in RunLists
    /\ outcome = NoOutcome
    /\ before = NoFile
    /\ cycles = 0
    /\ first = NoFirst

\* The caller calls write_index once more with the list it holds.
CallAgain ==
    /\ pc = "idle"
    /\ cycles < MaxCycles
    /\ pc' = "scanned"
    /\ UNCHANGED <<fs, output, runs, outcome, before, cycles, first>>

NextWrite ==
    \/ \E fault \in Faults, cut \in 0..MaxCut : MainWrite(fault, cut)
    \/ CallAgain

SpecWrite == InitWrite /\ [][NextWrite]_vars

---------------------------------------------------------------------------
(* What the claims speak of *)

HasKey(rec, key) == \E j \in 1..Len(rec) : rec[j][1] = key

Get(rec, key) == rec[CHOOSE j \in 1..Len(rec) : rec[j][1] = key][2]

\* The date directories: the children of the data directory that are
\* directories.
DateDirsOf(f) ==
    {d \in DateNames : f.kind = "dir" /\ \E i \in 1..Len(f.root) :
                           f.root[i].name = d /\ f.root[i].isDir}

NamesIn(f, d) == {f.ents[d][i].name : i \in 1..Len(f.ents[d])}

\* A name that matches *-bench.json and does not end in -jit-bench.json.
IsPrimaryName(n) ==
    /\ Len(n) >= 11
    /\ SubSeq(n, Len(n) - 10, Len(n)) = "-bench.json"
    /\ ~(Len(n) >= 15 /\ SubSeq(n, Len(n) - 14, Len(n)) = "-jit-bench.json")

\* The primary files on disk, <<directory, name>>.
Primaries(f) ==
    {dn \in DateDirsOf(f) \X FileNames : dn[2] \in NamesIn(f, dn[1]) /\ IsPrimaryName(dn[2])}

\* a before b in lexicographic order of code points.
LexLess(a, b) ==
    \E k \in 1..Len(b) :
        /\ k <= Len(a) + 1
        /\ SubSeq(a, 1, k - 1) = SubSeq(b, 1, k - 1)
        /\ \/ k = Len(a) + 1
           \/ Ord(SubSeq(a, k, k)) < Ord(SubSeq(b, k, k))

\* The file name a record's bench path ends in.
BenchName(rec) ==
    SubSeq(Get(rec, "bench"), Len(Get(rec, "date")) + 2, Len(Get(rec, "bench")))

\* The scan has returned and the tree is as it was scanned.
Scanned == pc = "scanned"

\* C1: every primary file of every date directory has exactly one record, the
\* records are as many as the primary files, and the record of file F in
\* directory D has date D, commit F without its -bench.json, and bench D/F.
C1_Complete ==
    Scanned =>
        /\ Len(runs) = Cardinality(Primaries(fs))
        /\ \A dn \in Primaries(fs) :
               /\ Cardinality({i \in 1..Len(runs) :
                      Get(runs[i], "bench") = dn[1] \o "/" \o dn[2]}) = 1
               /\ \E i \in 1..Len(runs) :
                      /\ Get(runs[i], "bench") = dn[1] \o "/" \o dn[2]
                      /\ Get(runs[i], "date") = dn[1]
                      /\ Get(runs[i], "commit") = SubSeq(dn[2], 1, Len(dn[2]) - 11)

\* Two commits under one date were scanned into two records.
C1_Witness ==
    /\ Scanned
    /\ Len(runs) = 2
    /\ \E d \in DateNames : {"a-bench.json", "b-bench.json"} \subseteq NamesIn(fs, d)

Roles == {<<"jit_bench", "-jit-bench.json">>, <<"regression", "-regression.json">>,
          <<"jit_regression", "-jit-regression.json">>,
          <<"cross_client", "-cross-client.json">>}

\* C2: in every record, for each of the four roles, the key is there exactly
\* when <commit><suffix> exists in the record's own date directory, and then
\* its value is <date>/<commit><suffix>, never an empty value.
C2_Companions ==
    Scanned =>
        \A i \in 1..Len(runs), role \in Roles :
            LET d == Get(runs[i], "date")
                file == Get(runs[i], "commit") \o role[2]
            IN  /\ HasKey(runs[i], role[1]) <=> file \in NamesIn(fs, d)
                /\ HasKey(runs[i], role[1]) =>
                       /\ Get(runs[i], role[1]) = d \o "/" \o file
                       /\ Get(runs[i], role[1]) # ""

\* The record of a-bench.json in date directory 10 carries a companion key.
C2_Witness ==
    /\ Scanned
    /\ \E i \in 1..Len(runs) : \E role \in Roles :
           /\ HasKey(runs[i], role[1])
           /\ Get(runs[i], "date") = "10"
    /\ "a-bench.json" \in NamesIn(fs, "10")

\* C3: the records are in order of date, and within a date in strictly
\* increasing order of file name, both as plain strings.
C3_Ordered ==
    Scanned =>
        \A i, j \in 1..Len(runs) :
            i < j =>
                \/ LexLess(Get(runs[i], "date"), Get(runs[j], "date"))
                \/ /\ Get(runs[i], "date") = Get(runs[j], "date")
                   /\ LexLess(BenchName(runs[i]), BenchName(runs[j]))

\* Two dates were scanned whose directories the data directory lists in the
\* other order.
C3_Witness ==
    /\ Scanned
    /\ Len(runs) = 2
    /\ Get(runs[1], "date") = "10"
    /\ Get(runs[2], "date") = "2"
    /\ fs.root[1].name = "2"

\* C4: every record's bench names an entry of a date directory that ends in
\* -bench.json and not in -jit-bench.json; no record is made for a
\* -jit-bench.json file or for a file outside the pattern.
C4_Sound ==
    Scanned =>
        /\ \A i \in 1..Len(runs) :
               \E dn \in Primaries(fs) : Get(runs[i], "bench") = dn[1] \o "/" \o dn[2]
        /\ \A d \in DateDirsOf(fs) : \A n \in NamesIn(fs, d) :
               ~IsPrimaryName(n) =>
                   \A i \in 1..Len(runs) : Get(runs[i], "bench") # d \o "/" \o n

\* A -jit-bench.json file without its primary was scanned into no record.
C4_Witness ==
    /\ Scanned
    /\ runs = <<>>
    /\ \E d \in DateDirsOf(fs) :
           /\ "a-jit-bench.json" \in NamesIn(fs, d)
           /\ "readme.txt" \in NamesIn(fs, d)

\* C5 as stated: every record has a non-empty date, commit and bench.
C5_AllNonEmpty ==
    Scanned =>
        \A i \in 1..Len(runs) :
            /\ Get(runs[i], "date") # ""
            /\ Get(runs[i], "commit") # ""
            /\ Get(runs[i], "bench") # ""

\* C5 amended: every record has a non-empty date and bench, and its commit is
\* empty exactly when its primary file is named -bench.json.
C5_NonEmptyButCommit ==
    Scanned =>
        \A i \in 1..Len(runs) :
            /\ Get(runs[i], "date") # ""
            /\ Get(runs[i], "bench") # ""
            /\ Get(runs[i], "commit") = "" <=> BenchName(runs[i]) = "-bench.json"

\* Records with an empty and with a non-empty commit were scanned.
C5_Witness ==
    /\ Scanned
    /\ \E i, j \in 1..Len(runs) :
           /\ Get(runs[i], "commit") = ""
           /\ Get(runs[j], "commit") # ""

\* What the output path holds now.
OutFile == ReadFile(fs, output)

\* write_index has just failed.
Failed == outcome.kind = "exit"

\* The last call of write_index succeeded.
Written == outcome.kind = "ok"

\* C6: a failed write_index is fatal, names the output path and the cause,
\* is not followed by the report of success, and leaves the output path
\* holding what it held before the call or nothing.
C6_FailureLeavesNoPartialFile ==
    Failed =>
        /\ pc = "exited"
        /\ outcome.path = PathStr(output)
        /\ outcome.cause # ""
        /\ ~outcome.reported
        /\ \/ OutFile = before
           \/ ~OutFile.exists
           \/ OutFile.text = ""

\* The events of the document {"runs": rs}: each record an object of its
\* items in their order, the records in their order.
RECURSIVE ItemEvents(_)
ItemEvents(rec) ==
    IF rec = <<>> THEN <<>>
    ELSE <<"k" \o Head(rec)[1], "s" \o Head(rec)[2]>> \o ItemEvents(Tail(rec))

RECURSIVE RecordEvents(_)
RecordEvents(rs) ==
    IF rs = <<>> THEN <<>>
    ELSE <<"{">> \o ItemEvents(Head(rs)) \o <<"}">> \o RecordEvents(Tail(rs))

IndexEvents(rs) == <<"{", "kruns", "[">> \o RecordEvents(rs) \o <<"]", "}">>

\* C7: after a successful write_index the file parses as an object with the
\* one field runs, whose value is the input list: the same records in the
\* same order, each with its keys in their order, none merged or dropped.
C7_RoundTrip ==
    Written =>
        /\ OutFile.exists
        /\ JsonLoad(OutFile.text).ok
        /\ JsonLoad(OutFile.text).ev = IndexEvents(runs)

\* Two equal records, their keys not in sorted order and a value with a
\* quote and a backslash, were written.
C7_Witness ==
    /\ Written
    /\ runs = <<RecB, RecB>>

\* C8: after a successful write_index the file holds the serialisation of
\* the run list and nothing else, whatever the path held before, and a
\* second write of the same list leaves the same bytes as the first.
C8_Deterministic ==
    Written =>
        /\ OutFile.text = JsonDump(runs) \o "\n"
        /\ cycles >= 2 /\ first.runs = runs => OutFile.text = first.text

\* A list was written over a longer document.
C8_Witness ==
    /\ Written
    /\ before.exists
    /\ Len(before.text) > Len(OutFile.text)

\* C9: the scan of a data directory that does not exist, is empty, holds
\* only plain files or only directories without a primary file returns the
\* empty list and does not raise; the index written from it parses as
\* {"runs": []}.
C9_MissingInput ==
    /\ outcome.kind = "raise" => fs.kind = "file"
    /\ Scanned /\ Primaries(fs) = {} => runs = <<>>
    /\ Written /\ Primaries(fs) = {} =>
           /\ JsonLoad(OutFile.text).ok
           /\ JsonLoad(OutFile.text).ev = <<"{", "kruns", "[", "]", "}">>

\* A data directory that does not exist was scanned.
C9_Witness ==
    /\ Scanned
    /\ fs.kind = "absent"
    /\ runs = <<>>

\* C10: with the output directly under the data directory, the index written
\* by a cycle is a plain file there, every later scan returns the run list of
\* the first cycle and every later write leaves the bytes of the first.
C10_FixedPoint ==
    /\ Len(output) = 1 /\ cycles >= 1 =>
           /\ fs.kind = "dir"
           /\ OutFile.exists /\ ~OutFile.isDir
    /\ Len(output) = 1 /\ cycles >= 1 /\ pc \in {"scanned", "idle"} =>
           runs = first.runs
    /\ Len(output) = 1 /\ cycles >= 1 /\ Written => OutFile.text = first.text

\* Two cycles ran over a tree with a primary file.
C10_Witness ==
    /\ cycles = 2
    /\ Written
    /\ runs # <<>>
    /\ OutFile.text = first.text

====
